---- MODULE Spec2Model ----
(***************************************************************************)
(* A model of rakyll/trace: the span identifier generator, the per-trace   *)
(* span tree of the context-based Google Cloud client, the id-based client *)
(* and the context-based instrumentation API.                              *)
(*                                                                         *)
(* The repository holds several revisions of the same small API.  Each     *)
(* revision is modelled by its own group of variables and its own          *)
(* specification; the variables of the other groups keep their initial     *)
(* values:                                                                 *)
(*   SpecIds  nextSpanID called by concurrent goroutines                   *)
(*   Spec     the context-based gcp client: NewSpan, Span, Finish on the   *)
(*            per-trace span sequence, from concurrent goroutines          *)
(*   SpecSpan the Span API of trace.go over the id-based gcp client, whose *)
(*            span ids travel as JSON bytes                                *)
(*   SpecCtxApi  the context-based API layer of WithClient, ChildSpan,     *)
(*            StartEnd and SetLabel over a backend that records the calls  *)
(*            it receives                                                  *)
(*   SpecTracer  the context-based API layer of WithTrace, WithSpan,       *)
(*            SetLabel and Finish over the same recording backend          *)
(*   SpecProp  spans in contexts and in HTTP requests: Configure,          *)
(*            NewContext, FromContext, and each body of ToHTTPReq and      *)
(*            FromHTTPReq over a client that carries spans or does not     *)
(*   SpecRoundTrip  the identity of a span encoded by the gcp client and   *)
(*            decoded in another process                                   *)
(*   SpecRT   the tracing RoundTripper of traceutil: RoundTrip, and Read   *)
(*            and Close of the response body, over the clientTrace pool    *)
(*   SpecFinish  finish of the id-based gcp client on lists of spans       *)
(*   SpecMem  NewSpan on the in-memory span tree, from concurrent          *)
(*            goroutines                                                   *)
(*   SpecIdsLive  nextSpanID called again and again by fairly scheduled    *)
(*            goroutines                                                   *)
(***************************************************************************)
EXTENDS Integers, Sequences, FiniteSets, TLC

(***************************************************************************)
(* Bounds of the model.                                                    *)
(***************************************************************************)
\* Width in bits of the span id counter (uint64 in the source).
W == 3
\* Goroutines calling nextSpanID concurrently.
NumCallers == 2

\* Goroutines calling the context-based client concurrently.
NumProcs == 2
\* Span objects allocated by NewSpan and Span together.
MaxSpans == 3
\* Calls to Finish that reach the upload.
MaxUploads == 2
\* Spec draws the increment of the generator from 0..MaxSeed (every
\* starting counter is drawn, so zero comes up at every position).
MaxSeed == 1
\* Last instant of the clock; the clock starts at 1, 0 is the zero time.Time.
MaxTime == 2


\* SpecSpan: Span objects made by NewSpan and NewChild together.
MaxApiSpans == 2
\* SpecSpan, SpecCtxApi: calls that reach the backend's Finish.
MaxFinish == 2
\* SpecSpan, SpecCtxApi: calls of SetLabel.
MaxSetLabel == 2
\* SpecCtxApi: context values made.
MaxCtxs == 4
\* SpecCtxApi: finish functions returned by ChildSpan and StartEnd together.
MaxFuncs == 2
\* SpecSpan: bundler.BundleCountThreshold, 100 in the source, scaled down.
BundleCountThreshold == 2
\* SpecCtxApi: calls of WithClient, each making a traceInfo.
MaxInfos == 1
\* SpecSpan, SpecCtxApi: label values are drawn from 1..MaxVal.
MaxVal == 2
MaxPropCtxs == 3
\* Round trips made, bytes of a response body, clientTrace objects
\* allocated, and calls of the finished callback.
MaxRTs == 2
MaxBody == 1
MaxRtObjs == 2
MaxRtFinished == 3
\* Spans in the list handed to finish.
MaxList == 2
\* Span objects of the in-memory tree.
MaxMemSpans == 4
\* Additions counted for one call of nextSpanID; further ones are not told
\* apart.
MaxAdds == 3

Modulus == 2^W
Uint == 0..(Modulus - 1)
Callers == 1..NumCallers
Procs == 1..NumProcs
\* The keys and values handed to SetLabel, the instants handed to StartEnd.
LabelKeys == {"k"}
LabelVals == 1..MaxVal
Times == 1..MaxTime
\* A nil pointer, a nil context value.
Nil == 0
\* Width of each half of a trace id, "%016x".
HexWidth == 16

VARIABLES
    \* gcp: the package-level identifier generator
    spanIDCounter, spanIDIncrement,
    \* SpecIds: the goroutines calling nextSpanID; idReturned[v] counts the
    \* calls that returned v
    idpc, idLocal, idAdds, idStarted, idReturned,
    \* Spec: the heap of the context-based client.  ctxs holds the context
    \* values made so far, spans the span objects (a *span is an index),
    \* traces the trace objects with their span slice and mutex, uploads the
    \* number of calls of Client.upload and lastUpload the latest of them,
    \* now the clock read by time.Now.
    ctxs, spans, traces, uploads, lastUpload, now,
    \* Spec: each goroutine's position and locals: the ctx argument, the
    \* span it works on, the ids drawn so far, the slice read by append.
    pc, lctx, lspan, lids, lold,
    \* Spec: history of each span object: the context it was started from,
    \* the span object found in that context, the operation that made it;
    \* and the number of calls of Finish on a context that holds a span.
    spanHist, finishCalls,
    \* SpecSpan: the *Span objects of trace.go with the closure NewSpan
    \* returned for each, each goroutine's call of client.NewSpan in
    \* flight, and the calls the id-based client's Finish received.
    apiSpans, apiOp, backend,
    \* SpecCtxApi: the context values, the traceInfo objects, the finish
    \* closures returned, the calls received by the backend, the number of
    \* spans the backend made, and per span the labels set on it so far.
    apiCtxs, traceInfos, finishFuncs, clientCalls, clientSpans, labelHist,
    \* SpecSpan, SpecCtxApi: the number of calls of SetLabel.
    setLabelCalls,
    \* The API layers: the functions in which a run-time panic was raised
    \* (a method called on a nil interface, a failed type assertion).
    panics,
    \* SpecProp: whether the client set with Configure implements the HTTP
    \* propagation interface, and the latest call of ToHTTPReq or
    \* FromHTTPReq with what it returned.
    clientCarrier, lastCall,
    \* SpecRoundTrip: the latest identity that was encoded and decoded: the
    \* span it was encoded from and what the decoding process got.
    decoded,
    \* SpecRT: the clientTrace objects in clientTracePool, for each object
    \* allocated the round trip that last took it, the round trips made, the
    \* calls of the finished callback, and the latest call of traceBody.Read.
    rtPool, rtOwner, rts, rtFinished, lastRead,
    \* SpecMem: the Span objects of the in-memory tree with their children
    \* and mutex, the global list parents, the holder of muParents, each
    \* goroutine's call of NewSpan in flight, and the contexts returned.
    memSpans, memParents, memMu, memOp, memCtxs,
    \* SpecFinish: the latest call of finish on a list of spans.
    finishLog,
    \* SpecIdsLive: for each caller inside nextSpanID, whether no other
    \* caller has added to the counter during the call, and the number of
    \* additions by other callers since the call's latest addition.
    idAlone, idOthers

idGenVars == <<spanIDCounter, spanIDIncrement>>
idCallVars == <<idpc, idLocal, idAdds, idReturned>>
heapVars == <<ctxs, spans, traces, uploads, lastUpload, now>>
procVars == <<pc, lctx, lspan, lids, lold>>
histVars == <<spanHist, finishCalls>>
treeVars == <<heapVars, procVars, histVars>>
treeNoClock == <<ctxs, spans, traces, uploads, lastUpload, procVars, histVars>>
spanApiVars == <<apiSpans, apiOp, backend>>
ctxApiVars == <<apiCtxs, traceInfos, finishFuncs, clientCalls, clientSpans, labelHist>>
rtVars == <<rtPool, rtOwner, rts, rtFinished, lastRead>>
memVars == <<memSpans, memParents, memMu, memOp, memCtxs>>
liveVars == <<idAlone, idOthers>>
extVars == <<rtVars, memVars, finishLog, liveVars>>
propVars == <<clientCarrier, lastCall, decoded, extVars>>
layerVars == <<spanApiVars, ctxApiVars, setLabelCalls, panics, propVars>>
vars == <<idGenVars, idStarted, idCallVars, treeVars, layerVars>>

(***************************************************************************)
(* gcp: init, nextSpanID                                                   *)
(***************************************************************************)
\* The increment left as drawn, possibly even.
SetLSBNone(x) == x

\* spanIDIncrement |= 1
SetLSB(x) == IF x % 2 = 0 THEN x + 1 ELSE x

\* atomic.AddUint64(&addr, delta): the new value, wrapping at the width.
AddUint64(addr, delta) == (addr + delta) % Modulus

\* init(): both values are read from crypto/rand, the increment is made odd.
\* drawn is the set of values the increment is drawn from.
IdGenInit(drawn) ==
    /\ spanIDCounter \in Uint
    /\ spanIDIncrement \in {SetLSB(x) : x \in drawn}

\* for id == 0 { ... }
LoopCond(id) == id = 0

\* No goroutine has called nextSpanID yet.
IdCallInit ==
    /\ idpc = [p \in Callers |-> "idle"]
    /\ idLocal = [p \in Callers |-> 0]
    /\ idAdds = [p \in Callers |-> 0]
    /\ idReturned = [v \in Uint |-> 0]

(***************************************************************************)
(* context: WithValue and Value on the chain of key-value pairs            *)
(***************************************************************************)
\* context.WithValue(ctx, key, val): a new context, ctx is its parent.
WithValue(ctx, key, val) == Append(ctx, [key |-> key, val |-> val])

\* A lookup that walks the chain from its root: the oldest pair wins.
RECURSIVE ValueOldest(_, _)
ValueOldest(ctx, key) ==
    IF ctx = <<>> THEN Nil
    ELSE IF ctx[1].key = key THEN ctx[1].val
    ELSE ValueOldest(Tail(ctx), key)

\* ctx.Value(key): the nearest pair with the key, nil when there is none.
RECURSIVE Value(_, _)
Value(ctx, key) ==
    IF ctx = <<>> THEN Nil
    ELSE IF ctx[Len(ctx)].key = key THEN ctx[Len(ctx)].val
    ELSE Value(SubSeq(ctx, 1, Len(ctx) - 1), key)

contextSpan(ctx) == Value(ctx, "span")
contextClient(ctx) == Value(ctx, "client")

\* The context the program starts from: it carries the client and no span.
BaseContext == WithValue(<<>>, "client", 1)

(***************************************************************************)
(* gcp: nextTraceID, constructTrace                                        *)
(***************************************************************************)
\* fmt "%016x": the digits of n in base 16, zero-padded to width digits.
RECURSIVE HexDigits(_, _)
HexDigits(n, width) ==
    IF width = 0 THEN <<>>
    ELSE Append(HexDigits(n \div 16, width - 1), n % 16)

\* fmt.Sprintf("%016x%016x", id1, id2)
nextTraceID(id1, id2) == HexDigits(id1, HexWidth) \o HexDigits(id2, HexWidth)

\* t.In(time.UTC).Format(time.RFC3339Nano): the instant as a string.
FormatTime(t) == [rfc3339 |-> t]
ParseTime(str) == str.rfc3339

\* constructTrace with ParentSpanId filled from sp.id.
constructTraceParentFromID(t, spanSeq, heap) ==
    [TraceId |-> t.id,
     Spans |-> [i \in 1..Len(spanSeq) |->
                 [SpanId |-> heap[spanSeq[i]].id,
                  ParentSpanId |-> heap[spanSeq[i]].id,
                  StartTime |-> FormatTime(heap[spanSeq[i]].start),
                  EndTime |-> FormatTime(heap[spanSeq[i]].end)]]]

\* (*trace).constructTrace: one api.TraceSpan per element of the slice;
\* t is the trace object, heap the span objects the slice points to.
constructTrace(t, spanSeq, heap) ==
    [TraceId |-> t.id,
     Spans |-> [i \in 1..Len(spanSeq) |->
                 [SpanId |-> heap[spanSeq[i]].id,
                  ParentSpanId |-> heap[spanSeq[i]].parentID,
                  StartTime |-> FormatTime(heap[spanSeq[i]].start),
                  EndTime |-> FormatTime(heap[spanSeq[i]].end)]]]

(***************************************************************************)
(* gcp: the context-based client (NewSpan, Span, Finish)                   *)
(***************************************************************************)
\* time.Now(): the clock may have advanced since the last reading.
TimeNow == {t \in {now, now + 1} : t <= MaxTime}

\* Identifiers NewSpan draws: one for the span, two more for a new trace.
IdsNeeded(ctx) == IF contextSpan(ctx) = Nil THEN 3 ELSE 1

\* A Lock that never waits.
LockFreeAlways(t) == TRUE

\* sync.Mutex: Lock returns only when no goroutine holds the mutex.
LockFree(t) == traces[t].mu = Nil

\* Information about a remote span as it arrives: the JSON of a spanID, or
\* bytes that are no JSON object.
RemoteInfos ==
    {[json |-> TRUE, TraceID |-> nextTraceID(6, 7), ParentID |-> 2, ID |-> 5],
     [json |-> FALSE]}

TreeInit ==
    /\ ctxs = <<BaseContext>>
    /\ spans = <<>>
    /\ traces = <<>>
    /\ uploads = 0
    /\ lastUpload = Nil
    /\ now = 1
    /\ pc = [g \in Procs |-> "idle"]
    /\ lctx = [g \in Procs |-> Nil]
    /\ lspan = [g \in Procs |-> Nil]
    /\ lids = [g \in Procs |-> <<>>]
    /\ lold = [g \in Procs |-> <<>>]
    /\ spanHist = <<>>
    /\ finishCalls = 0

\* The API layers before any call: no Span, no call in flight, nothing
\* received by a backend; the only context is context.Background().
LayerInit ==
    /\ apiSpans = <<>>
    /\ apiOp = [p \in Procs |-> [pc |-> "idle", parent |-> <<>>, id |-> 0]]
    /\ backend = <<>>
    /\ apiCtxs = << <<>> >>
    /\ traceInfos = <<>>
    /\ finishFuncs = <<>>
    /\ clientCalls = <<>>
    /\ clientSpans = 0
    /\ labelHist = <<>>
    /\ setLabelCalls = 0
    /\ panics = {}
    /\ clientCarrier = FALSE
    /\ lastCall = [fn |-> "none", ctx |-> 0, supported |-> FALSE, spanNil |-> TRUE,
                   inReq |-> [kind |-> "none", id |-> <<>>],
                   outReq |-> [kind |-> "none", id |-> <<>>],
                   outSpan |-> [nil |-> TRUE, id |-> <<>>],
                   err |-> "nil", called |-> FALSE, panicked |-> FALSE]
    /\ decoded = [via |-> "none", err |-> FALSE,
                  orig |-> [TraceID |-> <<>>, ParentID |-> 0, ID |-> 0],
                  span |-> [TraceID |-> <<>>, ParentID |-> 0, ID |-> 0]]
    /\ rtPool = <<>>
    /\ rtOwner = <<>>
    /\ rts = <<>>
    /\ rtFinished = <<>>
    /\ lastRead = [rt |-> 0, n |-> 0, err |-> "nil", innerN |-> 0,
                   innerErr |-> "nil"]
    /\ memSpans = <<>>
    /\ memParents = <<>>
    /\ memMu = Nil
    /\ memOp = [g \in Procs |-> [pc |-> "idle", ctx |-> 0, span |-> 0,
                                  parent |-> 0, old |-> <<>>]]
    /\ memCtxs = << <<>> >>
    /\ finishLog = [calls |-> 0, spans |-> <<>>, traces |-> <<>>]
    /\ idAlone = [p \in Callers |-> TRUE]
    /\ idOthers = [p \in Callers |-> 0]

\* A goroutine calls NewSpan(ctx, name): parent := contextSpan(ctx).
NewSpanCall(g, c) ==
    /\ pc[g] = "idle"
    /\ Len(spans) + Cardinality({h \in Procs : pc[h] = "ids"}) < MaxSpans
    /\ idStarted + IdsNeeded(ctxs[c]) <= Modulus - 1
    /\ idStarted' = idStarted + IdsNeeded(ctxs[c])
    /\ pc' = [pc EXCEPT ![g] = "ids"]
    /\ lctx' = [lctx EXCEPT ![g] = c]
    /\ lids' = [lids EXCEPT ![g] = <<>>]
    /\ UNCHANGED <<idGenVars, idCallVars, layerVars, heapVars, lspan, lold, histVars>>

\* NewSpan without s.parentID = parent.id.
NewSpanStructNoParentID(parent, ids, t) ==
    IF parent = Nil
    THEN [trace |-> Len(traces) + 1, parentID |-> 0, id |-> ids[1],
          start |-> t, end |-> 0]
    ELSE [trace |-> spans[parent].trace, parentID |-> 0,
          id |-> ids[1], start |-> t, end |-> 0]

\* The span NewSpan builds once its identifiers are drawn, started at t.
NewSpanStruct(parent, ids, t) ==
    IF parent = Nil
    THEN [trace |-> Len(traces) + 1, parentID |-> 0, id |-> ids[1],
          start |-> t, end |-> 0]
    ELSE [trace |-> spans[parent].trace, parentID |-> spans[parent].id,
          id |-> ids[1], start |-> t, end |-> 0]

\* One atomic addition of nextSpanID inside NewSpan.  A zero result is
\* dropped and the loop adds again; with the last identifier drawn the span
\* (and for a root its trace) is built and s.start = time.Now() is read.
NewSpanNextID(g) ==
    /\ pc[g] = "ids"
    /\ spanIDCounter' = AddUint64(spanIDCounter, spanIDIncrement)
    /\ LET id == spanIDCounter'
           ctx == ctxs[lctx[g]]
           parent == contextSpan(ctx)
           ids == Append(lids[g], id)
       IN IF LoopCond(id)
          THEN UNCHANGED <<heapVars, procVars, histVars>>
          ELSE IF Len(ids) < IdsNeeded(ctx)
          THEN /\ lids' = [lids EXCEPT ![g] = ids]
               /\ UNCHANGED <<heapVars, pc, lctx, lspan, lold, histVars>>
          ELSE \E t \in TimeNow :
               /\ now' = t
               /\ spans' = Append(spans, NewSpanStruct(parent, ids, t))
               /\ traces' = IF parent = Nil
                            THEN Append(traces, [id |-> nextTraceID(ids[2], ids[3]),
                                                 spans |-> <<>>, mu |-> Nil])
                            ELSE traces
               /\ spanHist' = Append(spanHist, [from |-> lctx[g], parent |-> parent,
                                                op |-> "NewSpan"])
               /\ lspan' = [lspan EXCEPT ![g] = Len(spans) + 1]
               /\ lids' = [lids EXCEPT ![g] = <<>>]
               /\ pc' = [pc EXCEPT ![g] = "lock"]
               /\ UNCHANGED <<ctxs, uploads, lastUpload, lctx, lold, finishCalls>>
    /\ UNCHANGED <<spanIDIncrement, idStarted, idCallVars, layerVars>>

\* s.trace.Lock(), and append reads the slice s.trace.spans.
NewSpanLock(g) ==
    /\ pc[g] = "lock"
    /\ LockFree(spans[lspan[g]].trace)
    /\ traces' = [traces EXCEPT ![spans[lspan[g]].trace].mu = g]
    /\ lold' = [lold EXCEPT ![g] = traces[spans[lspan[g]].trace].spans]
    /\ pc' = [pc EXCEPT ![g] = "append"]
    /\ UNCHANGED <<idGenVars, idStarted, idCallVars, layerVars, ctxs, spans, uploads,
                   lastUpload, now, lctx, lspan, lids, histVars>>

\* NewSpan that appends to the trace only the spans that have a parent, as
\* Span does for a resurrected span.
NewSpanAppendChildrenOnly(g) ==
    /\ pc[g] = "append"
    /\ traces' = [traces EXCEPT ![spans[lspan[g]].trace] =
                    [@ EXCEPT !.spans = IF spans[lspan[g]].parentID = 0
                                        THEN lold[g]
                                        ELSE Append(lold[g], lspan[g]),
                              !.mu = Nil]]
    /\ ctxs' = Append(ctxs, WithValue(ctxs[lctx[g]], "span", lspan[g]))
    /\ pc' = [pc EXCEPT ![g] = "idle"]
    /\ lold' = [lold EXCEPT ![g] = <<>>]
    /\ lctx' = [lctx EXCEPT ![g] = Nil]
    /\ lspan' = [lspan EXCEPT ![g] = Nil]
    /\ UNCHANGED <<idGenVars, idStarted, idCallVars, layerVars, spans, uploads, lastUpload,
                   now, lids, histVars>>

\* s.trace.spans = append(...), s.trace.Unlock(), and the return of
\* context.WithValue(ctx, spanKey, s).
NewSpanAppend(g) ==
    /\ pc[g] = "append"
    /\ traces' = [traces EXCEPT ![spans[lspan[g]].trace] =
                    [@ EXCEPT !.spans = Append(lold[g], lspan[g]), !.mu = Nil]]
    /\ ctxs' = Append(ctxs, WithValue(ctxs[lctx[g]], "span", lspan[g]))
    /\ pc' = [pc EXCEPT ![g] = "idle"]
    /\ lold' = [lold EXCEPT ![g] = <<>>]
    /\ lctx' = [lctx EXCEPT ![g] = Nil]
    /\ lspan' = [lspan EXCEPT ![g] = Nil]
    /\ UNCHANGED <<idGenVars, idStarted, idCallVars, layerVars, spans, uploads, lastUpload,
                   now, lids, histVars>>

\* Span(ctx, name, info): a span resurrected from remote info, on a trace
\* object of its own to which it is not appended.  Bytes that do not decode
\* return (nil, err) and change nothing.
ResurrectSpan(g, c, info) ==
    /\ pc[g] = "idle"
    /\ Len(spans) + Cardinality({h \in Procs : pc[h] = "ids"}) < MaxSpans
    /\ IF ~info.json
       THEN UNCHANGED <<heapVars, spanHist>>
       ELSE /\ traces' = Append(traces, [id |-> info.TraceID, spans |-> <<>>,
                                         mu |-> Nil])
            /\ spans' = Append(spans, [trace |-> Len(traces) + 1,
                                       parentID |-> info.ParentID, id |-> info.ID,
                                       start |-> 0, end |-> 0])
            /\ spanHist' = Append(spanHist, [from |-> c, parent |-> Nil,
                                             op |-> "Span"])
            /\ ctxs' = Append(ctxs, WithValue(ctxs[c], "span", Len(spans) + 1))
            /\ UNCHANGED <<uploads, lastUpload, now>>
    /\ UNCHANGED <<idGenVars, idStarted, idCallVars, layerVars, procVars, finishCalls>>

\* Client.Finish(ctx, tags): nothing without a span in ctx; otherwise
\* s.end = time.Now() and the call of s.trace.finish.
FinishCall(g, c) ==
    /\ pc[g] = "idle"
    /\ uploads + Cardinality({h \in Procs : pc[h] = "upload"}) < MaxUploads
    /\ IF contextSpan(ctxs[c]) = Nil
       THEN UNCHANGED <<heapVars, procVars, finishCalls>>
       ELSE \E t \in TimeNow :
            /\ now' = t
            /\ finishCalls' = finishCalls + 1
            /\ spans' = [spans EXCEPT ![contextSpan(ctxs[c])].end = t]
            /\ pc' = [pc EXCEPT ![g] = "upload"]
            /\ lctx' = [lctx EXCEPT ![g] = c]
            /\ lspan' = [lspan EXCEPT ![g] = contextSpan(ctxs[c])]
            /\ UNCHANGED <<ctxs, traces, uploads, lastUpload, lids, lold>>
    /\ UNCHANGED <<idGenVars, idStarted, idCallVars, layerVars, spanHist>>

\* What the read of t.spans by finish can return: the slice, and, when
\* another goroutine is inside append on this trace, also the slice that
\* append is about to store (the read holds no lock).
SpansRead(g, t) ==
    {traces[t].spans} \cup
    {Append(lold[h], lspan[h]) :
        h \in {k \in Procs \ {g} : pc[k] = "append" /\ spans[lspan[k]].trace = t}}

\* (*trace).finish: s.end = time.Now(), then the upload of the trace built
\* from t.spans; Client.Finish logs the error of a failed upload and
\* returns, so the outcome of the upload changes no state.
FinishUpload(g) ==
    /\ pc[g] = "upload"
    /\ \E t \in TimeNow :
        \E read \in SpansRead(g, spans[lspan[g]].trace) :
            /\ now' = t
            /\ spans' = [spans EXCEPT ![lspan[g]].end = t]
            /\ uploads' = uploads + 1
            /\ lastUpload' =
                  [traces |-> <<constructTrace(traces[spans[lspan[g]].trace],
                                               read, spans')>>,
                   span |-> lspan[g],
                   client |-> contextClient(ctxs[lctx[g]]),
                   locked |-> traces[spans[lspan[g]].trace].mu = g]
    /\ pc' = [pc EXCEPT ![g] = "idle"]
    /\ lctx' = [lctx EXCEPT ![g] = Nil]
    /\ lspan' = [lspan EXCEPT ![g] = Nil]
    /\ UNCHANGED <<idGenVars, idStarted, idCallVars, layerVars, ctxs, traces, lids, lold,
                   histVars>>

Init ==
    IdGenInit(0..MaxSeed) /\ idStarted = 0 /\ IdCallInit /\ TreeInit /\ LayerInit

Next ==
    \E g \in Procs :
        \/ \E c \in DOMAIN ctxs : NewSpanCall(g, c)
        \/ NewSpanNextID(g)
        \/ NewSpanLock(g)
        \/ NewSpanAppend(g)
        \/ \E c \in DOMAIN ctxs, info \in RemoteInfos : ResurrectSpan(g, c, info)
        \/ \E c \in DOMAIN ctxs : FinishCall(g, c)
        \/ FinishUpload(g)

Spec == Init /\ [][Next]_vars

(***************************************************************************)
(* Properties of the context-based client (Spec).                          *)
(***************************************************************************)
\* No goroutine is inside a call.
TreeQuiet == \A g \in Procs : pc[g] = "idle"
\* The span objects made by NewSpan, and those among them with a parent.
StartedSpans == {i \in DOMAIN spans : spanHist[i].op = "NewSpan"}
ChildSpans == {i \in StartedSpans : spanHist[i].parent # Nil}
\* The span objects whose NewSpan or Span has returned its context.
ReturnedSpans == {i \in DOMAIN spans : \A g \in Procs : lspan[g] = i => pc[g] = "upload"}
\* The positions of span object i in the span sequence of trace t.
PositionsIn(t, i) == {k \in 1..Len(traces[t].spans) : traces[t].spans[k] = i}
\* The entries of an uploaded trace that carry span id v.
EntriesOf(apiTrace, v) ==
    {k \in 1..Len(apiTrace.Spans) : apiTrace.Spans[k].SpanId = v}

\* C4 (as stated): a span started from a parent span has the TraceID of the
\* parent, ParentSpanID equal to the parent's SpanID, and a SpanID that
\* differs from the parent's.
C4_ChildOfParent ==
    \A i \in ChildSpans :
        /\ spans[i].trace = spans[spanHist[i].parent].trace
        /\ traces[spans[i].trace].id = traces[spans[spanHist[i].parent].trace].id
        /\ spans[i].parentID = spans[spanHist[i].parent].id
        /\ spans[i].id # spans[spanHist[i].parent].id

\* C4 (amended): the same, where the SpanID differs from the parent's when
\* the parent was started by NewSpan in this process; the SpanID of a parent
\* resurrected with Span is remote and the local generator may draw it.
C4_ChildOfLocalParent ==
    \A i \in ChildSpans :
        /\ spans[i].trace = spans[spanHist[i].parent].trace
        /\ traces[spans[i].trace].id = traces[spans[spanHist[i].parent].trace].id
        /\ spans[i].parentID = spans[spanHist[i].parent].id
        /\ spanHist[spanHist[i].parent].op = "NewSpan"
              => spans[i].id # spans[spanHist[i].parent].id

\* A child of a span started by NewSpan and a child of a resurrected span
\* have both been started and returned.
C4_Witness ==
    /\ TreeQuiet
    /\ \E i \in ChildSpans : spanHist[spanHist[i].parent].op = "NewSpan"
    /\ \E i \in ChildSpans : spanHist[spanHist[i].parent].op = "Span"

\* C5 (as stated): every span in a trace's span sequence with a nonzero
\* ParentSpanID has a span with that SpanID in the same sequence, also the
\* children of a span resurrected with Span.
C5_ParentInSequence ==
    \A t \in DOMAIN traces : \A k \in 1..Len(traces[t].spans) :
        spans[traces[t].spans[k]].parentID # 0
            => \E j \in 1..Len(traces[t].spans) :
                  spans[traces[t].spans[j]].id = spans[traces[t].spans[k]].parentID

\* C5 (amended): every span in a trace's span sequence with a nonzero
\* ParentSpanID has a span with that SpanID in the same sequence, or is the
\* child of a span resurrected with Span, which is on no span sequence.
C5_ParentInSequenceOrRemote ==
    \A t \in DOMAIN traces : \A k \in 1..Len(traces[t].spans) :
        spans[traces[t].spans[k]].parentID # 0
            => \/ \E j \in 1..Len(traces[t].spans) :
                    spans[traces[t].spans[j]].id = spans[traces[t].spans[k]].parentID
               \/ /\ spanHist[traces[t].spans[k]].parent # Nil
                  /\ spanHist[spanHist[traces[t].spans[k]].parent].op = "Span"

\* A trace holds a root, its child and the child of that child.
C5_Witness ==
    \E t \in DOMAIN traces :
        /\ Len(traces[t].spans) = 3
        /\ \E i, j \in ChildSpans :
              /\ spanHist[j].parent = i
              /\ PositionsIn(t, i) # {}
              /\ PositionsIn(t, j) # {}

C7_DerivedContext ==
    /\ \A i \in ReturnedSpans :
          /\ \E d \in DOMAIN ctxs :
                /\ ctxs[d] = WithValue(ctxs[spanHist[i].from], "span", i)
                /\ contextSpan(ctxs[d]) = i
          /\ i \in StartedSpans =>
                contextSpan(ctxs[spanHist[i].from]) = spanHist[i].parent
    /\ \A i, j \in StartedSpans :
          spanHist[i].from = spanHist[j].from =>
              /\ spans[i].parentID = spans[j].parentID
              /\ spanHist[i].parent = spanHist[j].parent
              /\ spanHist[i].parent # Nil => spans[i].trace = spans[j].trace

\* Two spans were started from the context that NewSpan returned for a
\* third span, and both calls have returned.
C7_Witness ==
    /\ TreeQuiet
    /\ \E i, j \in ChildSpans :
          /\ i # j
          /\ spanHist[i].from = spanHist[j].from
          /\ spanHist[i].parent \in StartedSpans
          /\ {i, j} \subseteq ReturnedSpans

\* C10: a root span started and finished once, with no other span started,
\* gives exactly one export: one trace with exactly one span, with
\* ParentSpanID 0 and EndTime set.
C10_SingleRootExport ==
    (/\ TreeQuiet
     /\ Len(spans) = 1
     /\ spanHist[1].op = "NewSpan"
     /\ finishCalls = 1) =>
        /\ uploads = 1
        /\ Len(lastUpload.traces) = 1
        /\ lastUpload.traces[1].TraceId = traces[spans[1].trace].id
        /\ Len(lastUpload.traces[1].Spans) = 1
        /\ lastUpload.traces[1].Spans[1].SpanId = spans[1].id
        /\ lastUpload.traces[1].Spans[1].ParentSpanId = 0
        /\ ParseTime(lastUpload.traces[1].Spans[1].EndTime) # 0

\* The root span is the only span and its one Finish has returned.
C10_Witness ==
    /\ TreeQuiet
    /\ Len(spans) = 1
    /\ spanHist[1].op = "NewSpan"
    /\ finishCalls = 1
    /\ uploads = 1

\* C12: the upload of a finished span never runs inside the caller's Finish:
\* the step with which a goroutine returns from Finish performs no upload.
C12_FinishReturnsWithoutUpload ==
    [][\A g \in Procs :
          (pc[g] = "upload" /\ pc'[g] = "idle") => uploads' = uploads]_vars

(***************************************************************************)
(* nextSpanID called by concurrent goroutines (SpecIds)                     *)
(***************************************************************************)
\* A goroutine enters nextSpanID: var id uint64.
CallNextSpanID(p) ==
    /\ idpc[p] = "idle"
    /\ idStarted < Modulus
    /\ idpc' = [idpc EXCEPT ![p] = "loop"]
    /\ idLocal' = [idLocal EXCEPT ![p] = 0]
    /\ idAdds' = [idAdds EXCEPT ![p] = 0]
    /\ idStarted' = idStarted + 1
    /\ UNCHANGED <<idGenVars, idReturned, treeVars, layerVars>>

\* One iteration of the loop: id = atomic.AddUint64(&spanIDCounter, spanIDIncrement).
LoopNextSpanID(p) ==
    /\ idpc[p] = "loop"
    /\ LoopCond(idLocal[p])
    /\ spanIDCounter' = AddUint64(spanIDCounter, spanIDIncrement)
    /\ idLocal' = [idLocal EXCEPT ![p] = spanIDCounter']
    /\ idAdds' = [idAdds EXCEPT ![p] = @ + 1]
    /\ UNCHANGED <<spanIDIncrement, idpc, idStarted, idReturned, treeVars, layerVars>>

\* nextSpanID with a single addition and no test of the result.
ReturnNextSpanIDNoTest(p) ==
    /\ idpc[p] = "loop"
    /\ idAdds[p] >= 1
    /\ idReturned' = [idReturned EXCEPT ![idLocal[p]] = @ + 1]
    /\ idpc' = [idpc EXCEPT ![p] = "idle"]
    /\ UNCHANGED <<idGenVars, idLocal, idAdds, idStarted, treeVars, layerVars>>

\* The loop test fails: return id.
ReturnNextSpanID(p) ==
    /\ idpc[p] = "loop"
    /\ ~LoopCond(idLocal[p])
    /\ idReturned' = [idReturned EXCEPT ![idLocal[p]] = @ + 1]
    /\ idpc' = [idpc EXCEPT ![p] = "idle"]
    /\ UNCHANGED <<idGenVars, idLocal, idAdds, idStarted, treeVars, layerVars>>

InitIds ==
    IdGenInit(Uint) /\ idStarted = 0 /\ IdCallInit /\ TreeInit /\ LayerInit

NextIds ==
    \E p \in Callers :
        \/ CallNextSpanID(p)
        \/ LoopNextSpanID(p)
        \/ ReturnNextSpanID(p)

SpecIds == InitIds /\ [][NextIds]_vars

(***************************************************************************)
(* Properties of the identifier generator (SpecIds).                       *)
(***************************************************************************)
IdsAllReturned == \A p \in Callers : idpc[p] = "idle"
IdsPairwiseDistinct == \A v \in Uint : idReturned[v] <= 1

\* C1 (as stated): for N <= 2^w calls to nextSpanID, made by concurrent
\* callers from any starting counter and any odd increment, all returned
\* span IDs are pairwise distinct.
C1_DistinctUpToModulus == idStarted <= Modulus => IdsPairwiseDistinct

\* C1 (amended): for N <= 2^w - 1 calls to nextSpanID the returned span IDs
\* are pairwise distinct; zero is skipped, so only 2^w - 1 values exist.
C1_DistinctBelowModulus == idStarted <= Modulus - 1 => IdsPairwiseDistinct

\* 2^w - 1 calls were made by both callers and have returned, one of them
\* after skipping zero.
C1_Witness ==
    /\ idStarted = Modulus - 1
    /\ IdsAllReturned
    /\ \A p \in Callers : idAdds[p] >= 1
    /\ \E p \in Callers : idAdds[p] = 2

\* C2: every value returned by nextSpanID is nonzero, for any starting
\* counter, any odd increment and any interleaving of the callers.
C2_NeverZero == idReturned[0] = 0

\* A call drew zero from the counter, added again and returned.
C2_Witness ==
    \E p \in Callers :
        /\ idpc[p] = "idle"
        /\ idAdds[p] = 2
        /\ \E v \in Uint \ {0} : idReturned[v] > 0

(***************************************************************************)
(* trace.go over the id-based gcp client (SpecSpan)                        *)
(***************************************************************************)
\* The zero value of spanID; the empty string is the empty sequence.
ZeroSpanID == [TraceID |-> <<>>, ParentID |-> 0, CausalID |-> 0, ID |-> 0]

\* json.Marshal(id): the members of the object, one per field of the struct.
Marshal(id) ==
    << [k |-> "TraceID", v |-> id.TraceID],
       [k |-> "ParentID", v |-> id.ParentID],
       [k |-> "CausalID", v |-> id.CausalID],
       [k |-> "ID", v |-> id.ID] >>

\* The value of the last member called name in the object by; zero when the
\* object has no such member.
Member(by, name, zero) ==
    LET at == {i \in DOMAIN by : by[i].k = name}
    IN  IF at = {} THEN zero
        ELSE by[CHOOSE i \in at : \A j \in at : j <= i].v

\* json.Unmarshal(by, &v) fails on input that holds no JSON value.
UnmarshalErr(by) == by = <<>>

\* json.Unmarshal(by, &v) into a zero spanID.
Unmarshal(by) ==
    [TraceID |-> Member(by, "TraceID", ZeroSpanID.TraceID),
     ParentID |-> Member(by, "ParentID", ZeroSpanID.ParentID),
     CausalID |-> Member(by, "CausalID", ZeroSpanID.CausalID),
     ID |-> Member(by, "ID", ZeroSpanID.ID)]

\* (*client).NewSpan(parent, causal) once nextSpanID has returned id; a nil
\* slice is the empty sequence.
clientNewSpan(parent, causal, id) ==
    LET parentID == IF parent # <<>> THEN Unmarshal(parent) ELSE ZeroSpanID
        causalID == IF causal # <<>> THEN Unmarshal(causal) ELSE ZeroSpanID
    IN  Marshal([TraceID |-> parentID.TraceID,
                 ID |-> id,
                 CausalID |-> causalID.ID,
                 ParentID |-> parentID.ID])

\* constructTrace(projID, span) of the id-based client: one trace per span.
constructTraceOfSpan(span) ==
    [TraceId |-> span.id.TraceID,
     Spans |-> << [SpanId |-> span.id.ID,
                   ParentSpanId |-> span.id.ParentID,
                   StartTime |-> FormatTime(span.start),
                   EndTime |-> FormatTime(span.end)] >>]

\* finish that groups the spans by trace ID: one trace for each TraceID,
\* in the order of first appearance, holding all the spans of that trace.
finishSpansGrouped(spanSeq) ==
    LET heads == SelectSeq([i \in DOMAIN spanSeq |-> i],
                     LAMBDA i : \A j \in 1..(i - 1) :
                         spanSeq[j].id.TraceID # spanSeq[i].id.TraceID)
        ofTrace(h) == SelectSeq(spanSeq,
                        LAMBDA sp : sp.id.TraceID = spanSeq[h].id.TraceID)
    IN  [k \in DOMAIN heads |->
            [TraceId |-> spanSeq[heads[k]].id.TraceID,
             Spans |-> [m \in DOMAIN ofTrace(heads[k]) |->
                          constructTraceOfSpan(ofTrace(heads[k])[m]).Spans[1]]]]

\* finish(c, projID, spans): the traces handed to c.upload.
finishSpans(spanSeq) ==
    [i \in DOMAIN spanSeq |-> constructTraceOfSpan(spanSeq[i])]

\* c.upload(traces): the error of PatchTraces(...).Do(), nil when the call
\* succeeded.
clientUpload(ok) == IF ok THEN "nil" ELSE "upload error"

\* m[key] = val on a map held as a set of key/value pairs.
PutLabel(m, key, val) == {e \in m : e[1] # key} \cup {<<key, val>>}

\* NewSpan(name) calls client.NewSpan(nil, nil), which enters nextSpanID.
SpanNewSpan(p) ==
    /\ apiOp[p].pc = "idle"
    /\ Len(apiSpans) + Cardinality({q \in Procs : apiOp[q].pc # "idle"}) < MaxApiSpans
    /\ apiOp' = [apiOp EXCEPT ![p] = [pc |-> "NewSpan", parent |-> <<>>, id |-> 0]]
    /\ UNCHANGED <<idGenVars, idStarted, idCallVars, propVars, panics, treeVars, apiSpans, backend,
                   ctxApiVars, setLabelCalls>>

\* s.NewChild(name) calls client.NewSpan(s.id, nil), which enters nextSpanID.
SpanNewChild(p, s) ==
    /\ apiOp[p].pc = "idle"
    /\ Len(apiSpans) + Cardinality({q \in Procs : apiOp[q].pc # "idle"}) < MaxApiSpans
    /\ apiOp' = [apiOp EXCEPT ![p] =
                    [pc |-> "NewChild", parent |-> apiSpans[s].id, id |-> 0]]
    /\ UNCHANGED <<idGenVars, idStarted, idCallVars, propVars, panics, treeVars, apiSpans, backend,
                   ctxApiVars, setLabelCalls>>

\* One iteration of nextSpanID inside client.NewSpan.
clientNextSpanID(p) ==
    /\ apiOp[p].pc # "idle"
    /\ LoopCond(apiOp[p].id)
    /\ spanIDCounter' = AddUint64(spanIDCounter, spanIDIncrement)
    /\ apiOp' = [apiOp EXCEPT ![p].id = spanIDCounter']
    /\ UNCHANGED <<spanIDIncrement, idStarted, idCallVars, propVars, panics, treeVars, apiSpans,
                   backend, ctxApiVars, setLabelCalls>>

\* nextSpanID returns, client.NewSpan marshals the id, and NewSpan or
\* NewChild makes the *Span with an empty label map and start := time.Now().
SpanReturn(p) ==
    /\ apiOp[p].pc # "idle"
    /\ ~LoopCond(apiOp[p].id)
    /\ \E start \in TimeNow :
          /\ apiSpans' = Append(apiSpans,
                [id |-> clientNewSpan(apiOp[p].parent, <<>>, apiOp[p].id),
                 labels |-> {},
                 start |-> start,
                 op |-> apiOp[p].pc])
          /\ now' = start
    /\ apiOp' = [apiOp EXCEPT ![p] = [pc |-> "idle", parent |-> <<>>, id |-> 0]]
    /\ UNCHANGED <<idGenVars, idStarted, idCallVars, propVars, panics, treeNoClock, backend,
                   ctxApiVars, setLabelCalls>>

\* s.SetLabel(key, val): s.labels[key] = val.
SpanSetLabel(s, key, val) ==
    /\ setLabelCalls < MaxSetLabel
    /\ apiSpans' = [apiSpans EXCEPT ![s].labels = PutLabel(@, key, val)]
    /\ setLabelCalls' = setLabelCalls + 1
    /\ UNCHANGED <<idGenVars, idStarted, idCallVars, propVars, panics, treeVars, apiOp, backend,
                   ctxApiVars>>

\* The FinishFunc of span s: client.Finish(s.id, name, s.labels, start,
\* time.Now()), which unmarshals the id, calls finish, which uploads one
\* trace for the span, and returns the error of the upload to its caller.
SpanFinishFunc(s) ==
    /\ Len(backend) < MaxFinish
    /\ \E end \in TimeNow, ok \in BOOLEAN :
          /\ now' = end
          /\ IF UnmarshalErr(apiSpans[s].id)
             THEN UNCHANGED backend
             ELSE LET sp == [id |-> Unmarshal(apiSpans[s].id),
                             labels |-> apiSpans[s].labels,
                             start |-> apiSpans[s].start,
                             end |-> end]
                  IN  backend' = Append(backend,
                          [span |-> sp, from |-> s,
                           traces |-> finishSpans(<<sp>>),
                           uploadOk |-> ok,
                           returned |-> clientUpload(ok)])
    /\ UNCHANGED <<idGenVars, idStarted, idCallVars, propVars, panics, treeNoClock, apiSpans, apiOp,
                   ctxApiVars, setLabelCalls>>

InitSpan == Init

NextSpan ==
    \/ \E p \in Procs : SpanNewSpan(p)
    \/ \E p \in Procs, s \in DOMAIN apiSpans : SpanNewChild(p, s)
    \/ \E p \in Procs : clientNextSpanID(p)
    \/ \E p \in Procs : SpanReturn(p)
    \/ \E s \in DOMAIN apiSpans, key \in LabelKeys, val \in LabelVals :
          SpanSetLabel(s, key, val)
    \/ \E s \in DOMAIN apiSpans : SpanFinishFunc(s)

SpecSpan == InitSpan /\ [][NextSpan]_vars

(***************************************************************************)
(* Properties of the id-based client (SpecSpan).                           *)
(***************************************************************************)
\* The *Span objects made by NewSpan(name), which have no parent.
RootSpans == {i \in DOMAIN apiSpans : apiSpans[i].op = "NewSpan"}

\* C3: a span started with no parent span has a non-empty TraceID that
\* differs from the TraceID of every other root span of the process.
C3_RootTraceIDMinted ==
    \A i \in RootSpans :
        /\ Unmarshal(apiSpans[i].id).TraceID # <<>>
        /\ \A j \in RootSpans \ {i} :
              Unmarshal(apiSpans[j].id).TraceID # Unmarshal(apiSpans[i].id).TraceID

\* C11: when the upload of a finished span fails, the finish call still
\* reports success (nil) to its caller; the batch is uploaded once only.
C11_UploadFailureHidden ==
    \A i \in DOMAIN backend :
        ~backend[i].uploadOk => backend[i].returned = "nil"

\* The number of traces handed to the first n uploads.
RECURSIVE ItemsUploaded(_)
ItemsUploaded(n) ==
    IF n = 0 THEN 0 ELSE ItemsUploaded(n - 1) + Len(backend[n].traces)

\* C13: finishing BundleCountThreshold spans with no time elapsed between
\* them causes exactly one upload, of one batch of BundleCountThreshold
\* items.
C13_OneBatchAtThreshold ==
    (/\ ItemsUploaded(Len(backend)) = BundleCountThreshold
     /\ \A i \in DOMAIN backend : backend[i].span.end = backend[1].span.end
     /\ \A i, j \in DOMAIN backend : i # j => backend[i].from # backend[j].from) =>
        /\ Len(backend) = 1
        /\ Len(backend[1].traces) = BundleCountThreshold

(***************************************************************************)
(* The context-based API layers over a recording backend                   *)
(* (SpecCtxApi, SpecTracer)                                                *)
(***************************************************************************)
\* The context keys of the API layers and of the backend.
traceInfoKey == "traceInfo"
traceKey == "trace"
labelsKey == "labels"
spanKey == "span"

\* traceClientFromContext(ctx): the client of the traceInfo in ctx, or nil.
traceClientFromContext(ctx) ==
    IF Value(ctx, traceInfoKey) = Nil THEN Nil
    ELSE traceInfos[Value(ctx, traceInfoKey)].client

\* tracerFromContext(ctx): the Tracer in ctx, or nil.
tracerFromContext(ctx) == Value(ctx, traceKey)

\* The backend's NewSpan(ctx, name): a context derived from ctx that holds
\* the new span n.
backendNewSpan(ctx, n) == WithValue(ctx, spanKey, n)

\* The labels set so far on the current span of ctx; none without a span.
LabelsSetOn(ctx) ==
    IF Value(ctx, spanKey) = Nil THEN {} ELSE labelHist[Value(ctx, spanKey)]

\* The labels set so far on the spans other than the current span of ctx.
LabelsSetOnOthers(ctx) ==
    UNION {labelHist[n] : n \in DOMAIN labelHist \ {Value(ctx, spanKey)}}

\* The history of labels after SetLabel(ctx, key, value).
LabelHistAfter(ctx, key, value) ==
    IF Value(ctx, spanKey) = Nil THEN labelHist
    ELSE [labelHist EXCEPT ![Value(ctx, spanKey)] = PutLabel(@, key, value)]

\* WithClient(ctx, c): a new traceInfo with an empty label map.
WithClient(c) ==
    /\ Len(apiCtxs) < MaxCtxs
    /\ Len(traceInfos) < MaxInfos
    /\ traceInfos' = Append(traceInfos, [client |-> 1, labels |-> {}])
    /\ apiCtxs' = Append(apiCtxs,
                         WithValue(apiCtxs[c], traceInfoKey, Len(traceInfos) + 1))
    /\ UNCHANGED <<idGenVars, idStarted, idCallVars, propVars, panics, treeVars, spanApiVars,
                   finishFuncs, clientCalls, clientSpans, labelHist, setLabelCalls>>

\* ChildSpan(ctx, name): without a client, ctx and noop; otherwise
\* start := time.Now(), newctx := t.NewSpan(ctx, name), and the closure that
\* ends the span at time.Now().
ChildSpan(c) ==
    /\ Len(finishFuncs) < MaxFuncs
    /\ IF traceClientFromContext(apiCtxs[c]) = Nil
       THEN /\ finishFuncs' = Append(finishFuncs,
                  [from |-> c, newctx |-> c, start |-> Nil, end |-> Nil,
                   of |-> "noop"])
            /\ UNCHANGED <<apiCtxs, clientSpans, labelHist, now>>
       ELSE /\ Len(apiCtxs) < MaxCtxs
            /\ \E start \in TimeNow :
                  /\ now' = start
                  /\ finishFuncs' = Append(finishFuncs,
                        [from |-> c, newctx |-> Len(apiCtxs) + 1, start |-> start,
                         end |-> Nil, of |-> "ChildSpan"])
            /\ apiCtxs' = Append(apiCtxs, backendNewSpan(apiCtxs[c], clientSpans + 1))
            /\ clientSpans' = clientSpans + 1
            /\ labelHist' = Append(labelHist, {})
    /\ UNCHANGED <<idGenVars, idStarted, idCallVars, propVars, panics, treeNoClock, spanApiVars,
                   traceInfos, clientCalls, setLabelCalls>>

\* StartEnd(ctx, name, start, end): without a client, ctx and a nil
\* FinishFunc; otherwise newctx := t.NewSpan(ctx, name), and the closure that
\* hands the caller's start and end to the backend.
StartEnd(c, start, end) ==
    /\ Len(finishFuncs) < MaxFuncs
    /\ IF traceClientFromContext(apiCtxs[c]) = Nil
       THEN /\ finishFuncs' = Append(finishFuncs,
                  [from |-> c, newctx |-> c, start |-> Nil, end |-> Nil,
                   of |-> "nil"])
            /\ UNCHANGED <<apiCtxs, clientSpans, labelHist>>
       ELSE /\ Len(apiCtxs) < MaxCtxs
            /\ finishFuncs' = Append(finishFuncs,
                  [from |-> c, newctx |-> Len(apiCtxs) + 1, start |-> start,
                   end |-> end, of |-> "StartEnd"])
            /\ apiCtxs' = Append(apiCtxs, backendNewSpan(apiCtxs[c], clientSpans + 1))
            /\ clientSpans' = clientSpans + 1
            /\ labelHist' = Append(labelHist, {})
    /\ UNCHANGED <<idGenVars, idStarted, idCallVars, propVars, panics, treeVars, spanApiVars,
                   traceInfos, clientCalls, setLabelCalls>>

\* SetLabel(ctx, key, value) of the traceInfo layer: info.labels[key] = value.
SetLabelInfo(c, key, value) ==
    /\ setLabelCalls < MaxSetLabel
    /\ setLabelCalls' = setLabelCalls + 1
    /\ IF Value(apiCtxs[c], traceInfoKey) = Nil
       THEN UNCHANGED <<traceInfos, labelHist>>
       ELSE /\ traceInfos' = [traceInfos EXCEPT
                 ![Value(apiCtxs[c], traceInfoKey)].labels = PutLabel(@, key, value)]
            /\ labelHist' = LabelHistAfter(apiCtxs[c], key, value)
    /\ UNCHANGED <<idGenVars, idStarted, idCallVars, propVars, panics, treeVars, spanApiVars,
                   apiCtxs, finishFuncs, clientCalls, clientSpans>>

\* A call of the FinishFunc f returned by ChildSpan or StartEnd.  The
\* closures call t.Finish(newctx, nil, v.(*traceInfo).labels, start, end);
\* noop returns nil; the call of a nil FinishFunc is a run-time panic.
RunFinishFunc(f) ==
    LET newctx == apiCtxs[finishFuncs[f].newctx]
        v == Value(newctx, traceInfoKey)
    IN  /\ Len(clientCalls) < MaxFinish
        /\ IF finishFuncs[f].of = "nil"
           THEN /\ panics' = panics \cup {"finish"}
                /\ UNCHANGED <<clientCalls, now>>
           ELSE IF finishFuncs[f].of = "noop" \/ v = Nil
           THEN UNCHANGED <<clientCalls, now, panics>>
           ELSE /\ \E end \in (IF finishFuncs[f].of = "ChildSpan"
                                THEN TimeNow ELSE {finishFuncs[f].end}) :
                      /\ now' = IF finishFuncs[f].of = "ChildSpan" THEN end ELSE now
                      /\ clientCalls' = Append(clientCalls,
                            [method |-> "Finish",
                             span |-> Value(newctx, spanKey),
                             labels |-> [nil |-> FALSE, m |-> traceInfos[v].labels],
                             timed |-> TRUE,
                             start |-> finishFuncs[f].start,
                             end |-> end,
                             want |-> LabelsSetOn(newctx),
                             foreign |-> LabelsSetOnOthers(newctx)])
                /\ UNCHANGED panics
        /\ UNCHANGED <<idGenVars, idStarted, idCallVars, propVars, treeNoClock, spanApiVars,
                       apiCtxs, traceInfos, finishFuncs, clientSpans, labelHist,
                       setLabelCalls>>

\* The Tracers handed to WithTrace: the nil interface and one tracer.
Tracers == {Nil, 1}

\* WithTrace(ctx, t): the Tracer is put into the context.
WithTrace(c, t) ==
    /\ Len(apiCtxs) < MaxCtxs
    /\ apiCtxs' = Append(apiCtxs, WithValue(apiCtxs[c], traceKey, t))
    /\ UNCHANGED <<idGenVars, idStarted, idCallVars, propVars, panics, treeVars, spanApiVars,
                   traceInfos, finishFuncs, clientCalls, clientSpans, labelHist,
                   setLabelCalls>>

\* The record of a call of the Tracer's Log(ctx, payload).
LogCall(ctx) ==
    [method |-> "Log",
     span |-> Value(ctx, spanKey),
     labels |-> [nil |-> TRUE, m |-> {}],
     timed |-> FALSE,
     start |-> Nil,
     end |-> Nil,
     want |-> {}]

\* Log(ctx, payload) and Logf(ctx, format, arg...) of trace/trace.go: nil
\* without a Tracer, t.Log(ctx, ...) otherwise.
Log(c) ==
    IF tracerFromContext(apiCtxs[c]) = Nil
    THEN UNCHANGED vars
    ELSE /\ Len(clientCalls) < MaxFinish
         /\ clientCalls' = Append(clientCalls, LogCall(apiCtxs[c]))
         /\ UNCHANGED <<idGenVars, idStarted, idCallVars, propVars, panics, treeVars,
                        spanApiVars, apiCtxs, traceInfos, finishFuncs, clientSpans,
                        labelHist, setLabelCalls>>

\* Logf(ctx, format, arg...) of the revision that does not test t:
\* t.Log(ctx, ...) on the result of tracerFromContext; the call of a method
\* on a nil interface is a run-time panic.
LogfUnchecked(c) ==
    /\ IF tracerFromContext(apiCtxs[c]) = Nil
       THEN /\ panics' = panics \cup {"Logf"}
            /\ UNCHANGED clientCalls
       ELSE /\ Len(clientCalls) < MaxFinish
            /\ clientCalls' = Append(clientCalls, LogCall(apiCtxs[c]))
            /\ UNCHANGED panics
    /\ UNCHANGED <<idGenVars, idStarted, idCallVars, propVars, treeVars, spanApiVars,
                   apiCtxs, traceInfos, finishFuncs, clientSpans, labelHist,
                   setLabelCalls>>

\* WithSpan(ctx, name): t.NewSpan(ctx, name); ctx itself without a Tracer.
WithSpan(c) ==
    IF tracerFromContext(apiCtxs[c]) = Nil
    THEN UNCHANGED vars
    ELSE /\ Len(apiCtxs) < MaxCtxs
         /\ apiCtxs' = Append(apiCtxs, backendNewSpan(apiCtxs[c], clientSpans + 1))
         /\ clientSpans' = clientSpans + 1
         /\ labelHist' = Append(labelHist, {})
         /\ UNCHANGED <<idGenVars, idStarted, idCallVars, propVars, panics, treeVars, spanApiVars,
                        traceInfos, finishFuncs, clientCalls, setLabelCalls>>

\* SetLabel(ctx, key, value) of the Tracer layer: the map found under
\* labelsKey, or a new map when there is none, gets labels[key] = value.  No
\* function stores a value under labelsKey, so the map written is the new
\* one, which no context and no variable refers to after the return.
SetLabelCtx(c, key, value) ==
    LET v == Value(apiCtxs[c], labelsKey)
        labels == IF v = Nil THEN {} ELSE v
        written == PutLabel(labels, key, value)
    IN  /\ setLabelCalls < MaxSetLabel
        /\ setLabelCalls' = setLabelCalls + 1
        /\ written # {}
        /\ labelHist' = LabelHistAfter(apiCtxs[c], key, value)
        /\ UNCHANGED <<idGenVars, idStarted, idCallVars, propVars, panics, treeVars, spanApiVars,
                       apiCtxs, traceInfos, finishFuncs, clientCalls, clientSpans>>

\* Finish(ctx) of the Tracer layer: t.Finish(ctx, nil) when ctx has no value
\* under labelsKey, t.Finish(ctx, v) otherwise.
FinishCtx(c) ==
    LET v == Value(apiCtxs[c], labelsKey)
    IN  IF tracerFromContext(apiCtxs[c]) = Nil
        THEN UNCHANGED vars
        ELSE /\ Len(clientCalls) < MaxFinish
             /\ clientCalls' = Append(clientCalls,
                   [method |-> "Finish",
                    span |-> Value(apiCtxs[c], spanKey),
                    labels |-> IF v = Nil THEN [nil |-> TRUE, m |-> {}]
                               ELSE [nil |-> FALSE, m |-> v],
                    timed |-> FALSE,
                    start |-> Nil,
                    end |-> Nil,
                    want |-> LabelsSetOn(apiCtxs[c])])
             /\ UNCHANGED <<idGenVars, idStarted, idCallVars, propVars, panics, treeVars, spanApiVars,
                            apiCtxs, traceInfos, finishFuncs, clientSpans,
                            labelHist, setLabelCalls>>

\* The API layers never read the identifier generator: one of its initial
\* states stands for all of them.
InitCtxApi == Init /\ spanIDCounter = 1

NextCtxApi ==
    \/ \E c \in DOMAIN apiCtxs : WithClient(c)
    \/ \E c \in DOMAIN apiCtxs : ChildSpan(c)
    \/ \E c \in DOMAIN apiCtxs, start \in Times, end \in Times : StartEnd(c, start, end)
    \/ \E c \in DOMAIN apiCtxs, key \in LabelKeys, value \in LabelVals :
          SetLabelInfo(c, key, value)
    \/ \E f \in DOMAIN finishFuncs : RunFinishFunc(f)

\* The layer of WithClient, ChildSpan, StartEnd and SetLabel on a traceInfo.
SpecCtxApi == InitCtxApi /\ [][NextCtxApi]_vars

NextTracer ==
    \/ \E c \in DOMAIN apiCtxs, t \in Tracers : WithTrace(c, t)
    \/ \E c \in DOMAIN apiCtxs : Log(c)
    \/ \E c \in DOMAIN apiCtxs : LogfUnchecked(c)
    \/ \E c \in DOMAIN apiCtxs : WithSpan(c)
    \/ \E c \in DOMAIN apiCtxs, key \in LabelKeys, value \in LabelVals :
          SetLabelCtx(c, key, value)
    \/ \E c \in DOMAIN apiCtxs : FinishCtx(c)

\* The layer of WithTrace, WithSpan, SetLabel and Finish on a Tracer.
SpecTracer == InitCtxApi /\ [][NextTracer]_vars

(***************************************************************************)
(* Properties of the API layers (SpecCtxApi, SpecTracer).                  *)
(***************************************************************************)
\* C8: every label set on a span before its finish runs is in the label map
\* that reaches the backend's Finish for that span, with the value of the
\* last write of its key.
C8_LabelsReachFinish ==
    \A i \in DOMAIN clientCalls :
        clientCalls[i].want \subseteq clientCalls[i].labels.m

\* C9: every span handed to the backend with a start and an end time has
\* EndTime >= StartTime, those of ChildSpan and those of StartEnd.
C9_EndNotBeforeStart ==
    \A i \in DOMAIN clientCalls :
        clientCalls[i].timed => clientCalls[i].end >= clientCalls[i].start

\* C15: for a context that holds no trace client, ChildSpan and StartEnd
\* return the input context and a finish function that can be called and
\* returns nil; no call of such a finish function fails.
C15_NoClientFinishCallable ==
    /\ \A f \in DOMAIN finishFuncs :
          traceClientFromContext(apiCtxs[finishFuncs[f].from]) = Nil =>
              /\ finishFuncs[f].newctx = finishFuncs[f].from
              /\ finishFuncs[f].of = "noop"
    /\ "finish" \notin panics

\* C14: while no context holds a tracer (WithTrace not called, or called
\* with a nil tracer), no call of WithSpan, Finish, Log, Logf or SetLabel
\* calls a tracer method or fails.
C14_NoTracerNoCall ==
    [][(\A c \in DOMAIN apiCtxs : tracerFromContext(apiCtxs[c]) = Nil) =>
          /\ clientCalls' = clientCalls
          /\ clientSpans' = clientSpans
          /\ panics' = panics]_vars

(***************************************************************************)
(* trace.go: spans in contexts and in HTTP requests (SpecProp)             *)
(***************************************************************************)
\* The trace header of a request: absent, malformed, or the id of a span.
NoHeader == [kind |-> "none", id |-> <<>>]
BadHeader == [kind |-> "bad", id |-> <<>>]
IdHeader(by) == [kind |-> "id", id |-> by]
\* A nil *http.Request.
NilReq == [kind |-> "nil request", id |-> <<>>]
\* A nil span, and the span with the id bytes by.
NilSpan == [nil |-> TRUE, id |-> <<>>]
SpanOf(by) == [nil |-> FALSE, id |-> by]

\* The carrier's SpanFromReq(req): a nil span and no error when the request
\* holds no trace information, an error when it is malformed.
carrierSpanFromReq(h) ==
    IF h.kind = "bad" THEN [span |-> NilSpan, err |-> "carrier error"]
    ELSE IF h.kind = "none" THEN [span |-> NilSpan, err |-> "nil"]
    ELSE [span |-> SpanOf(h.id), err |-> "nil"]

\* The carrier's SpanToReq(req, s): the request with the span's id.
carrierSpanToReq(h, sp) ==
    IF sp.nil THEN [req |-> h, err |-> "nil"]
    ELSE [req |-> IdHeader(sp.id), err |-> "nil"]

\* What a call returned: the request and span handed back, the error,
\* whether a method of the client was called, whether the call panicked.
Returned(req, sp, err, called) ==
    [outReq |-> req, outSpan |-> sp, err |-> err, called |-> called,
     panicked |-> FALSE]
Panicked == [outReq |-> NilReq, outSpan |-> NilSpan, err |-> "nil",
             called |-> FALSE, panicked |-> TRUE]
\* A panic after a method of the client was called.
PanickedAfterCall == [Panicked EXCEPT !.called = TRUE]

\* (*Span).ToHTTPReq(req) that asserts minitrace.HTTPInjector: req for a nil
\* span and for a client that is no injector, hc.SpanToReq otherwise.
ToHTTPReqInjector(sp, h, ok) ==
    IF sp.nil THEN Returned(h, NilSpan, "nil", FALSE)
    ELSE IF ~ok THEN Returned(h, NilSpan, "nil", FALSE)
    ELSE Returned(carrierSpanToReq(h, sp).req, NilSpan,
                  carrierSpanToReq(h, sp).err, TRUE)

\* (*Span).ToHTTPReq(req) that returns "not supported" if ok: with a client
\* that is no HTTPCarrier, hc is nil and hc.ToHTTPReq(req, s.id) panics.
ToHTTPReqCarrier(sp, h, ok) ==
    IF ok THEN Returned(h, NilSpan, "not supported", FALSE)
    ELSE Panicked

\* (*Span).ToHTTPReq(req) that returns "not supported" if !ok.
ToHTTPReqNotOk(sp, h, ok) ==
    IF sp.nil THEN Returned(h, NilSpan, "nil", FALSE)
    ELSE IF ~ok THEN Returned(h, NilSpan, "not supported", FALSE)
    ELSE IF carrierSpanToReq(h, sp).err # "nil"
    THEN Returned(NilReq, NilSpan, carrierSpanToReq(h, sp).err, TRUE)
    ELSE Returned(carrierSpanToReq(h, sp).req, NilSpan, "nil", TRUE)

\* FromHTTPReq(req) that asserts minitrace.HTTPExtractor: nil, nil for a
\* client that is no extractor; &Span{ID: span.ID()} calls ID on the span
\* the carrier returned, which panics when that span is nil.
FromHTTPReqExtractor(h, ok) ==
    IF ~ok THEN Returned(h, NilSpan, "nil", FALSE)
    ELSE IF carrierSpanFromReq(h).err # "nil"
    THEN Returned(h, NilSpan, carrierSpanFromReq(h).err, TRUE)
    ELSE IF carrierSpanFromReq(h).span.nil THEN PanickedAfterCall
    ELSE Returned(h, SpanOf(carrierSpanFromReq(h).span.id), "nil", TRUE)

\* FromHTTPReq(req) that returns "not supported" if ok: with a client that
\* is no HTTPCarrier, hc is nil and hc.FromHTTPReq(req) panics.
FromHTTPReqCarrier(h, ok) ==
    IF ok THEN Returned(h, NilSpan, "not supported", FALSE)
    ELSE Panicked

\* FromHTTPReq(req) that returns "not supported" if !ok; the span it returns
\* has the id bytes of the carrier, the nil slice when there were none.
FromHTTPReqNotOk(h, ok) ==
    IF ~ok THEN Returned(h, NilSpan, "not supported", FALSE)
    ELSE IF carrierSpanFromReq(h).err # "nil"
    THEN Returned(h, NilSpan, carrierSpanFromReq(h).err, TRUE)
    ELSE Returned(h, SpanOf(carrierSpanFromReq(h).span.id), "nil", TRUE)

\* The span a call is made on: nil, or the span at s of the spans returned.
SpanArg(s) == IF s = Nil THEN NilSpan ELSE SpanOf(apiSpans[s].id)

\* The requests a call can be given: without trace information, malformed,
\* or carrying the id of a span this program made.
Requests == {NoHeader, BadHeader} \cup {IdHeader(apiSpans[s].id) : s \in DOMAIN apiSpans}

\* The call fn with its arguments ends as res says: its results are kept in
\* lastCall, and a panic is added to panics.
CallEnds(fn, c, sp, h, res) ==
    /\ lastCall' = [fn |-> fn, ctx |-> c, supported |-> clientCarrier,
                    spanNil |-> sp.nil, inReq |-> h, outReq |-> res.outReq,
                    outSpan |-> res.outSpan, err |-> res.err,
                    called |-> res.called, panicked |-> res.panicked]
    /\ panics' = IF res.panicked THEN panics \cup {fn} ELSE panics

\* Configure(c): the global client is c, which implements the HTTP
\* propagation interface or not.
Configure(carrier) ==
    /\ clientCarrier' = carrier
    /\ UNCHANGED <<idGenVars, idStarted, idCallVars, treeVars, spanApiVars,
                   ctxApiVars, setLabelCalls, panics, lastCall, decoded, extVars>>

\* NewContext(ctx, span): a context derived from ctx with the span in.
NewContext(c, s) ==
    /\ Len(apiCtxs) < MaxPropCtxs
    /\ apiCtxs' = Append(apiCtxs, WithValue(apiCtxs[c], spanKey, s))
    /\ UNCHANGED <<idGenVars, idStarted, idCallVars, treeVars, spanApiVars,
                   traceInfos, finishFuncs, clientCalls, clientSpans,
                   labelHist, setLabelCalls, panics, propVars>>

\* What FromContext(ctx) does: ctx.Value(spanKey).(*Span), a type assertion
\* with one result, which panics on the nil interface of a missing key.
FromContextResult(ctx) ==
    IF Value(ctx, spanKey) = Nil THEN Panicked
    ELSE Returned(NoHeader, SpanArg(Value(ctx, spanKey)), "nil", FALSE)

\* What ContextSpan(ctx) does: nil when ctx.Value is nil, the span otherwise.
ContextSpanResult(ctx) ==
    IF Value(ctx, spanKey) = Nil THEN Returned(NoHeader, NilSpan, "nil", FALSE)
    ELSE Returned(NoHeader, SpanArg(Value(ctx, spanKey)), "nil", FALSE)

FromContext(c) ==
    /\ CallEnds("FromContext", c, NilSpan, NoHeader, FromContextResult(apiCtxs[c]))
    /\ UNCHANGED <<idGenVars, idStarted, idCallVars, treeVars, spanApiVars,
                   ctxApiVars, setLabelCalls, clientCarrier, decoded, extVars>>

ContextSpan(c) ==
    /\ CallEnds("ContextSpan", c, NilSpan, NoHeader, ContextSpanResult(apiCtxs[c]))
    /\ UNCHANGED <<idGenVars, idStarted, idCallVars, treeVars, spanApiVars,
                   ctxApiVars, setLabelCalls, clientCarrier, decoded, extVars>>

\* The calls of ToHTTPReq and FromHTTPReq, one action for each body of them.
CallToHTTPReqInjector(s) ==
    /\ CallEnds("ToHTTPReq with HTTPInjector", 0, SpanArg(s), NoHeader,
                ToHTTPReqInjector(SpanArg(s), NoHeader, clientCarrier))
    /\ UNCHANGED <<idGenVars, idStarted, idCallVars, treeVars, spanApiVars,
                   ctxApiVars, setLabelCalls, clientCarrier, decoded, extVars>>

CallToHTTPReqCarrier(s) ==
    /\ CallEnds("ToHTTPReq if ok", 0, SpanArg(s), NoHeader,
                ToHTTPReqCarrier(SpanArg(s), NoHeader, clientCarrier))
    /\ UNCHANGED <<idGenVars, idStarted, idCallVars, treeVars, spanApiVars,
                   ctxApiVars, setLabelCalls, clientCarrier, decoded, extVars>>

CallToHTTPReqNotOk(s) ==
    /\ CallEnds("ToHTTPReq if !ok", 0, SpanArg(s), NoHeader,
                ToHTTPReqNotOk(SpanArg(s), NoHeader, clientCarrier))
    /\ UNCHANGED <<idGenVars, idStarted, idCallVars, treeVars, spanApiVars,
                   ctxApiVars, setLabelCalls, clientCarrier, decoded, extVars>>

CallFromHTTPReqExtractor(h) ==
    /\ CallEnds("FromHTTPReq with HTTPExtractor", 0, NilSpan, h,
                FromHTTPReqExtractor(h, clientCarrier))
    /\ UNCHANGED <<idGenVars, idStarted, idCallVars, treeVars, spanApiVars,
                   ctxApiVars, setLabelCalls, clientCarrier, decoded, extVars>>

CallFromHTTPReqCarrier(h) ==
    /\ CallEnds("FromHTTPReq if ok", 0, NilSpan, h,
                FromHTTPReqCarrier(h, clientCarrier))
    /\ UNCHANGED <<idGenVars, idStarted, idCallVars, treeVars, spanApiVars,
                   ctxApiVars, setLabelCalls, clientCarrier, decoded, extVars>>

CallFromHTTPReqNotOk(h) ==
    /\ CallEnds("FromHTTPReq if !ok", 0, NilSpan, h,
                FromHTTPReqNotOk(h, clientCarrier))
    /\ UNCHANGED <<idGenVars, idStarted, idCallVars, treeVars, spanApiVars,
                   ctxApiVars, setLabelCalls, clientCarrier, decoded, extVars>>

InitProp == Init /\ spanIDCounter = 1

NextProp ==
    \/ \E carrier \in BOOLEAN : Configure(carrier)
    \/ \E p \in Procs : SpanNewSpan(p)
    \/ \E p \in Procs : clientNextSpanID(p)
    \/ \E p \in Procs : SpanReturn(p)
    \/ \E c \in DOMAIN apiCtxs, s \in DOMAIN apiSpans : NewContext(c, s)
    \/ \E c \in DOMAIN apiCtxs : FromContext(c)
    \/ \E c \in DOMAIN apiCtxs : ContextSpan(c)
    \/ \E s \in DOMAIN apiSpans \cup {Nil} : CallToHTTPReqInjector(s)
    \/ \E s \in DOMAIN apiSpans \cup {Nil} : CallToHTTPReqCarrier(s)
    \/ \E s \in DOMAIN apiSpans \cup {Nil} : CallToHTTPReqNotOk(s)
    \/ \E h \in Requests : CallFromHTTPReqExtractor(h)
    \/ \E h \in Requests : CallFromHTTPReqCarrier(h)
    \/ \E h \in Requests : CallFromHTTPReqNotOk(h)

SpecProp == InitProp /\ [][NextProp]_vars

\* C16: looking up the span of a context that carries no span returns nil
\* and does not panic, with FromContext as with ContextSpan.
C16_AbsentSpanIsNil ==
    (/\ lastCall.fn \in {"FromContext", "ContextSpan"}
     /\ Value(apiCtxs[lastCall.ctx], spanKey) = Nil)
        => (~lastCall.panicked /\ lastCall.outSpan.nil)

ToHTTPReqCalls == {"ToHTTPReq with HTTPInjector", "ToHTTPReq if ok", "ToHTTPReq if !ok"}
FromHTTPReqCalls == {"FromHTTPReq with HTTPExtractor", "FromHTTPReq if ok", "FromHTTPReq if !ok"}

\* C17: FromHTTPReq, with a client that extracts spans from requests, on a
\* request without trace information or with a malformed one returns no
\* span and no error, and does not panic.
C17_NoTraceInfoNoSpanNoError ==
    (/\ lastCall.fn = "FromHTTPReq with HTTPExtractor"
     /\ lastCall.supported
     /\ lastCall.inReq.kind \in {"none", "bad"})
        => (~lastCall.panicked /\ lastCall.err = "nil" /\ lastCall.outSpan.nil)

\* C18: ToHTTPReq on a nil span returns the request it was given, unchanged,
\* with no error, calls no method of the client, and does not panic.
C18_NilSpanPassesRequest ==
    (lastCall.fn \in ToHTTPReqCalls /\ lastCall.spanNil)
        => /\ ~lastCall.panicked
           /\ lastCall.err = "nil"
           /\ lastCall.outReq = lastCall.inReq
           /\ ~lastCall.called

\* C19: ToHTTPReq on a span that is not nil, and FromHTTPReq, return an
\* error and call no method of the client when the client does not support
\* HTTP propagation; when it does they call the client and return the error
\* the client returned.
C19_ErrorIffUnsupported ==
    (\/ lastCall.fn \in ToHTTPReqCalls /\ ~lastCall.spanNil
     \/ lastCall.fn \in FromHTTPReqCalls)
        => /\ ~lastCall.supported =>
                (~lastCall.panicked /\ lastCall.err # "nil" /\ ~lastCall.called)
           /\ lastCall.supported =>
                /\ lastCall.called
                /\ lastCall.fn \in ToHTTPReqCalls => lastCall.err = "nil"
                /\ lastCall.fn \in FromHTTPReqCalls =>
                      lastCall.err = carrierSpanFromReq(lastCall.inReq).err

(***************************************************************************)
(* gcp: a span's identity encoded, and decoded in another process          *)
(* (SpecRoundTrip)                                                         *)
(***************************************************************************)
\* (*client).Info(ctx): nil without a span in ctx, []byte(s.trace.id)
\* otherwise: the hex digits of the trace id, which are no JSON value.
Info(ctx) ==
    IF contextSpan(ctx) = Nil THEN [json |-> FALSE, text |-> <<>>]
    ELSE [json |-> FALSE, text |-> traces[spans[contextSpan(ctx)].trace].id]

\* (*client).Span(ctx, name, info): the error of json.Unmarshal(info, &v),
\* or the span made of v.TraceID, v.ParentID and v.ID.
clientSpan(info) ==
    IF ~info.json
    THEN [err |-> TRUE, span |-> [TraceID |-> <<>>, ParentID |-> 0, ID |-> 0]]
    ELSE [err |-> FALSE,
          span |-> [TraceID |-> info.TraceID, ParentID |-> info.ParentID,
                    ID |-> info.ID]]

\* The identity of the span object at s.
Identity(s) ==
    [TraceID |-> traces[spans[s].trace].id, ParentID |-> spans[s].parentID,
     ID |-> spans[s].id]

\* The span of the context c is encoded with Info, and another process
\* decodes the bytes with Span on a context of its own.
InfoSpan(c) ==
    /\ contextSpan(ctxs[c]) # Nil
    /\ decoded' = [via |-> "Info", err |-> clientSpan(Info(ctxs[c])).err,
                   orig |-> Identity(contextSpan(ctxs[c])),
                   span |-> clientSpan(Info(ctxs[c])).span]
    /\ UNCHANGED <<idGenVars, idStarted, idCallVars, treeVars, spanApiVars,
                   ctxApiVars, setLabelCalls, panics, clientCarrier, lastCall, extVars>>

\* The spanID values the id-based client is given to encode.
SpanIDs ==
    [TraceID : {<<>>, nextTraceID(1, 2)}, ParentID : 0..1, CausalID : {0},
     ID : 1..2]

\* The id-based client encodes id with json.Marshal, as NewSpan does, and
\* another process decodes the bytes with json.Unmarshal, as Finish does.
MarshalUnmarshal(id) ==
    /\ decoded' = [via |-> "ID", err |-> UnmarshalErr(Marshal(id)),
                   orig |-> [TraceID |-> id.TraceID, ParentID |-> id.ParentID,
                             ID |-> id.ID],
                   span |-> [TraceID |-> Unmarshal(Marshal(id)).TraceID,
                             ParentID |-> Unmarshal(Marshal(id)).ParentID,
                             ID |-> Unmarshal(Marshal(id)).ID]]
    /\ UNCHANGED <<idGenVars, idStarted, idCallVars, treeVars, spanApiVars,
                   ctxApiVars, setLabelCalls, panics, clientCarrier, lastCall, extVars>>

InitRoundTrip == Init /\ spanIDCounter = 1

NextRoundTrip ==
    \/ \E g \in Procs, c \in DOMAIN ctxs : NewSpanCall(g, c)
    \/ \E g \in Procs : NewSpanNextID(g)
    \/ \E g \in Procs : NewSpanLock(g)
    \/ \E g \in Procs : NewSpanAppend(g)
    \/ \E c \in DOMAIN ctxs : InfoSpan(c)
    \/ \E id \in SpanIDs : MarshalUnmarshal(id)

SpecRoundTrip == InitRoundTrip /\ [][NextRoundTrip]_vars

\* C20: whenever the identity of a span was encoded (with Info, or as the
\* span's ID bytes) and decoded in another process, the decoding gave no
\* error and a span with the TraceID, the span ID and the ParentID of the
\* original.
C20_RoundTripIdentity ==
    decoded.via # "none" => (~decoded.err /\ decoded.span = decoded.orig)

(***************************************************************************)
(* traceutil: the tracing RoundTripper and the response body it returns    *)
(* (SpecRT)                                                                *)
(***************************************************************************)
\* The variables of the specifications above, which the ones below leave
\* as they are.
coreVars ==
    <<idStarted, idCallVars, treeVars, spanApiVars, ctxApiVars, setLabelCalls,
      panics, clientCarrier, lastCall, decoded>>

\* The sequence seq without its element at i.
RemoveAt(seq, i) == SubSeq(seq, 1, i - 1) \o SubSeq(seq, i + 1, Len(seq))

\* What Read of the response body of the inner round tripper can return for
\* a body with left bytes to go: an error once closed, io.EOF at the end,
\* otherwise some bytes, the last ones with or without io.EOF, or an error.
InnerRead(left, closed) ==
    IF closed THEN {[n |-> 0, err |-> "closed"]}
    ELSE IF left = 0 THEN {[n |-> 0, err |-> "EOF"]}
    ELSE {[n |-> k, err |-> "nil"] : k \in 1..left}
         \cup {[n |-> left, err |-> "EOF"], [n |-> 0, err |-> "read error"]}

\* traceBody.Read(b) after t.body.Read(b) returned res: io.EOF is replaced
\* by nil, finish is called for every error, and n, err are returned.
traceBodyRead(res) ==
    [n |-> res.n,
     err |-> IF res.err = "EOF" THEN "nil" ELSE res.err,
     finish |-> res.err # "nil"]

\* The finish closure of round trip r: r.finished(trace.RoundTripResult),
\* then clientTracePool.Put(trace).  The result handed to the callback is
\* the object's, which holds the data of the round trip that last took it.
finishClosure(r) ==
    /\ rtFinished' = Append(rtFinished,
          [rt |-> r, obj |-> rts[r].trace, owner |-> rtOwner[rts[r].trace]])
    /\ rtPool' = Append(rtPool, rts[r].trace)

\* traceRoundTripper.RoundTrip(req): newClientTrace takes the object at
\* position o of the pool and resets its result, or allocates one when Get
\* returned nothing (o = 0); the inner round trip fails, and nil, err is
\* returned, or gives a response whose body is wrapped in a traceBody.
RoundTrip(o, ok, size) ==
    /\ Len(rts) < MaxRTs
    /\ IF o = 0
       THEN /\ Len(rtOwner) < MaxRtObjs
            /\ rtOwner' = Append(rtOwner, Len(rts) + 1)
            /\ UNCHANGED rtPool
       ELSE /\ rtOwner' = [rtOwner EXCEPT ![rtPool[o]] = Len(rts) + 1]
            /\ rtPool' = RemoveAt(rtPool, o)
    /\ rts' = Append(rts,
          [trace |-> IF o = 0 THEN Len(rtOwner) + 1 ELSE rtPool[o],
           st |-> IF ok THEN "open" ELSE "failed",
           left |-> IF ok THEN size ELSE 0,
           closed |-> FALSE, eof |-> FALSE])
    /\ UNCHANGED <<idGenVars, coreVars, rtFinished, lastRead, memVars,
                   finishLog, liveVars>>

\* traceBody.Read(b) on the body of round trip r.
traceBodyReadCall(r, res) ==
    /\ rts[r].st = "open"
    /\ traceBodyRead(res).finish => Len(rtFinished) < MaxRtFinished
    /\ rts' = [rts EXCEPT ![r].left = IF res.err = "EOF" THEN 0 ELSE @ - res.n,
                          ![r].eof = @ \/ res.err = "EOF"]
    /\ lastRead' = [rt |-> r, n |-> traceBodyRead(res).n,
                    err |-> traceBodyRead(res).err,
                    innerN |-> res.n, innerErr |-> res.err]
    /\ IF traceBodyRead(res).finish
       THEN finishClosure(r)
       ELSE UNCHANGED <<rtFinished, rtPool>>
    /\ UNCHANGED <<idGenVars, coreVars, rtOwner, memVars, finishLog, liveVars>>

\* traceBody.Close(): t.body.Close(), then finish(err).
traceBodyClose(r) ==
    /\ rts[r].st = "open"
    /\ Len(rtFinished) < MaxRtFinished
    /\ rts' = [rts EXCEPT ![r].closed = TRUE]
    /\ finishClosure(r)
    /\ UNCHANGED <<idGenVars, coreVars, rtOwner, lastRead, memVars, finishLog,
                   liveVars>>

InitRT == Init /\ spanIDCounter = 1 /\ spanIDIncrement = 1

NextRT ==
    \/ \E o \in {0} \cup DOMAIN rtPool, ok \in BOOLEAN, size \in 0..MaxBody :
          RoundTrip(o, ok, size)
    \/ \E r \in DOMAIN rts :
          \E res \in InnerRead(rts[r].left, rts[r].closed) :
              traceBodyReadCall(r, res)
    \/ \E r \in DOMAIN rts : traceBodyClose(r)

SpecRT == InitRT /\ [][NextRT]_vars

\* The calls of the finished callback made for round trip r.
FinishedOf(r) == {i \in DOMAIN rtFinished : rtFinished[i].rt = r}

\* Round trip r is complete: the inner round tripper failed, or the body
\* was read to its end or closed.
RtComplete(r) == rts[r].st = "failed" \/ rts[r].eof \/ rts[r].closed

\* C21: for every round trip the finished callback is called at most once,
\* and exactly once when the round trip is complete, with the
\* RoundTripResult of that round trip.
C21_FinishedExactlyOnce ==
    \A r \in DOMAIN rts :
        /\ Cardinality(FinishedOf(r)) <= 1
        /\ RtComplete(r) =>
              /\ Cardinality(FinishedOf(r)) = 1
              /\ \A i \in FinishedOf(r) : rtFinished[i].owner = r

\* The response body of round trip r can still be read or closed.
BodyInUse(r) == rts[r].st = "open" /\ ~rts[r].closed

\* The number of times the object o is in the pool.
TimesInPool(o) == Cardinality({i \in DOMAIN rtPool : rtPool[i] = o})

\* C25: a clientTrace is put into the pool at most once per round trip,
\* and while the response body of a round trip can still be read or closed
\* its clientTrace is not in the pool and is the clientTrace of no other
\* such round trip.
C25_PooledTraceNotShared ==
    /\ \A o \in DOMAIN rtOwner : TimesInPool(o) <= 1
    /\ \A r \in DOMAIN rts :
          BodyInUse(r) =>
              /\ TimesInPool(rts[r].trace) = 0
              /\ \A q \in DOMAIN rts :
                    (q # r /\ BodyInUse(q)) => rts[q].trace # rts[r].trace

\* C27: traceBody.Read returns the byte count and the error that the
\* wrapped body's Read returned, io.EOF included.
C27_ReadReturnsInnerResult ==
    lastRead.rt # 0 =>
        (lastRead.n = lastRead.innerN /\ lastRead.err = lastRead.innerErr)

(***************************************************************************)
(* Further properties of the Span API over the id-based client (SpecSpan). *)
(***************************************************************************)
\* C22: a span that is finished is not exported a second time: the client
\* receives at most one Finish for each span, a second call of the span's
\* FinishFunc being rejected before it reaches the client.
C22_NoSecondExport ==
    \A i, j \in DOMAIN backend : backend[i].from = backend[j].from => i = j

(***************************************************************************)
(* Further properties of the span tree of the context-based client (Spec). *)
(***************************************************************************)
\* C23: the read of the trace's span sequence from which Finish builds the
\* export is made while the goroutine holds the lock of the trace, as the
\* appends of NewSpan are.
C23_ExportReadsUnderLock == uploads > 0 => lastUpload.locked

\* C24: every span in an upload is finished: its EndTime is set.
C24_UploadedSpansFinished ==
    uploads > 0 =>
        \A i \in DOMAIN lastUpload.traces[1].Spans :
            ParseTime(lastUpload.traces[1].Spans[i].EndTime) # 0

(***************************************************************************)
(* Further properties of the traceInfo layer (SpecCtxApi).                 *)
(***************************************************************************)
\* C26: the labels handed to the backend's Finish for a span are labels
\* that were set through that span's context, never those set through the
\* context of its parent, of a child or of a sibling.
C26_LabelsOfOwnSpanOnly ==
    \A i \in DOMAIN clientCalls :
        clientCalls[i].method = "Finish" =>
            (clientCalls[i].labels.m \cap clientCalls[i].foreign)
                \subseteq clientCalls[i].want

(***************************************************************************)
(* gcp: finish of the id-based client on a list of spans (SpecFinish)      *)
(***************************************************************************)
\* The finished spans a list is made of.
FinishedSpans == [id : SpanIDs, labels : {{}}, start : {1}, end : Times]

\* The lists of at most n finished spans.
SpanLists(n) == UNION {[1..k -> FinishedSpans] : k \in 0..n}

\* finish(c, projID, spans): the traces are built, one per span, and handed
\* to c.upload in one call.
finishCall(spanSeq) ==
    /\ finishLog' = [calls |-> 1, spans |-> spanSeq,
                     traces |-> finishSpans(spanSeq)]
    /\ UNCHANGED <<idGenVars, coreVars, rtVars, memVars, liveVars>>

InitFinish == Init /\ spanIDCounter = 1 /\ spanIDIncrement = 1

NextFinish == \E spanSeq \in SpanLists(MaxList) : finishCall(spanSeq)

SpecFinish == InitFinish /\ [][NextFinish]_vars

ctxKey == "ctxKey"

\* A mutex that never blocks.
MutexFreeAlways(parent) == TRUE

\* parent.mu, or muParents without a parent, is held by no goroutine.
MutexFree(parent) ==
    IF parent # Nil THEN memSpans[parent].mu = Nil ELSE memMu = Nil

\* The slice NewSpan appends to: parent.spans, or parents without a parent.
SliceOf(parent) ==
    IF parent # Nil THEN memSpans[parent].spans ELSE memParents

\* NewSpan(ctx, name) up to c := context.WithValue(ctx, ctxKey, s): the
\* parent is ContextSpan(ctx) and s a new Span without children.
MemNewSpan(g, c) ==
    /\ memOp[g].pc = "idle"
    /\ Len(memSpans) < MaxMemSpans
    /\ memSpans' = Append(memSpans,
          [spans |-> <<>>, mu |-> Nil, parent |-> Value(memCtxs[c], ctxKey)])
    /\ memOp' = [memOp EXCEPT ![g] =
          [pc |-> "lock", ctx |-> c, span |-> Len(memSpans) + 1,
           parent |-> Value(memCtxs[c], ctxKey), old |-> <<>>]]
    /\ UNCHANGED <<idGenVars, coreVars, rtVars, memParents, memMu, memCtxs,
                   finishLog, liveVars>>

\* parent.mu.Lock(), or muParents.Lock(), and the read of the slice by
\* append.
MemLock(g) ==
    /\ memOp[g].pc = "lock"
    /\ MutexFree(memOp[g].parent)
    /\ IF memOp[g].parent # Nil
       THEN /\ memSpans' = [memSpans EXCEPT ![memOp[g].parent].mu = g]
            /\ UNCHANGED memMu
       ELSE /\ memMu' = g
            /\ UNCHANGED memSpans
    /\ memOp' = [memOp EXCEPT ![g].pc = "append",
                              ![g].old = SliceOf(memOp[g].parent)]
    /\ UNCHANGED <<idGenVars, coreVars, rtVars, memParents, memCtxs,
                   finishLog, liveVars>>

\* The slice is stored with s appended, the mutex is unlocked, and c, s are
\* returned.
MemAppend(g) ==
    /\ memOp[g].pc = "append"
    /\ IF memOp[g].parent # Nil
       THEN /\ memSpans' = [memSpans EXCEPT ![memOp[g].parent] =
                  [@ EXCEPT !.spans = Append(memOp[g].old, memOp[g].span),
                            !.mu = Nil]]
            /\ UNCHANGED <<memParents, memMu>>
       ELSE /\ memParents' = Append(memOp[g].old, memOp[g].span)
            /\ memMu' = Nil
            /\ UNCHANGED memSpans
    /\ memCtxs' = Append(memCtxs,
                         WithValue(memCtxs[memOp[g].ctx], ctxKey, memOp[g].span))
    /\ memOp' = [memOp EXCEPT ![g] = [pc |-> "idle", ctx |-> 0, span |-> 0,
                                      parent |-> 0, old |-> <<>>]]
    /\ UNCHANGED <<idGenVars, coreVars, rtVars, finishLog, liveVars>>

InitMem == Init /\ spanIDCounter = 1 /\ spanIDIncrement = 1

NextMem ==
    \/ \E g \in Procs, c \in DOMAIN memCtxs : MemNewSpan(g, c)
    \/ \E g \in Procs : MemLock(g)
    \/ \E g \in Procs : MemAppend(g)

SpecMem == InitMem /\ [][NextMem]_vars

\* The number of times the span s is in the list seq.
TimesIn(s, seq) == Cardinality({i \in DOMAIN seq : seq[i] = s})

\* The spans whose NewSpan has returned.
MemReturned ==
    {s \in DOMAIN memSpans : \A g \in Procs : memOp[g].span # s}

\* C30: every span whose NewSpan has returned is exactly once in the list
\* of its parent (the global list parents when its context carried no
\* span, the children of the span its context carried otherwise) and in no
\* other list.
C30_EachSpanOnceInTree ==
    \A s \in MemReturned :
        /\ TimesIn(s, memParents) = (IF memSpans[s].parent = Nil THEN 1 ELSE 0)
        /\ \A p \in DOMAIN memSpans :
              TimesIn(s, memSpans[p].spans) =
                  (IF memSpans[s].parent = p THEN 1 ELSE 0)

\* All calls of NewSpan have returned, the tree holds MaxMemSpans spans,
\* and one of them has two children.
C30_Witness ==
    /\ \A g \in Procs : memOp[g].pc = "idle"
    /\ Len(memSpans) = MaxMemSpans
    /\ \E p \in DOMAIN memSpans : Len(memSpans[p].spans) = 2

(***************************************************************************)
(* gcp: termination of nextSpanID with callers that call it again and      *)
(* again (SpecIdsLive)                                                     *)
(***************************************************************************)
\* a + 1, counted up to cap.
CountUpTo(a, cap) == IF a < cap THEN a + 1 ELSE cap

\* The callers inside nextSpanID other than p.
OthersInside(p) == {q \in Callers \ {p} : idpc[q] = "loop"}

\* A goroutine enters nextSpanID: var id uint64.
EnterNextSpanID(p) ==
    /\ idpc[p] = "idle"
    /\ idpc' = [idpc EXCEPT ![p] = "loop"]
    /\ idLocal' = [idLocal EXCEPT ![p] = 0]
    /\ idAdds' = [idAdds EXCEPT ![p] = 0]
    /\ idAlone' = [idAlone EXCEPT ![p] = TRUE]
    /\ idOthers' = [idOthers EXCEPT ![p] = 0]
    /\ UNCHANGED <<idGenVars, idStarted, idReturned, treeVars, spanApiVars,
                   ctxApiVars, setLabelCalls, panics, clientCarrier, lastCall,
                   decoded, rtVars, memVars, finishLog>>

\* One iteration of the loop; the callers that are inside nextSpanID see
\* an addition that is not theirs.
AddNextSpanID(p) ==
    /\ idpc[p] = "loop"
    /\ LoopCond(idLocal[p])
    /\ spanIDCounter' = AddUint64(spanIDCounter, spanIDIncrement)
    /\ idLocal' = [idLocal EXCEPT ![p] = spanIDCounter']
    /\ idAdds' = [idAdds EXCEPT ![p] = CountUpTo(@, MaxAdds)]
    /\ idAlone' = [q \in Callers |->
                      IF q \in OthersInside(p) THEN FALSE ELSE idAlone[q]]
    /\ idOthers' = [q \in Callers |->
                      IF q = p THEN 0
                      ELSE IF q \in OthersInside(p)
                      THEN CountUpTo(idOthers[q], Modulus - 1)
                      ELSE idOthers[q]]
    /\ UNCHANGED <<spanIDIncrement, idpc, idStarted, idReturned, treeVars,
                   spanApiVars, ctxApiVars, setLabelCalls, panics,
                   clientCarrier, lastCall, decoded, rtVars, memVars,
                   finishLog>>

\* The loop test fails: return id.
LeaveNextSpanID(p) ==
    /\ idpc[p] = "loop"
    /\ ~LoopCond(idLocal[p])
    /\ idpc' = [idpc EXCEPT ![p] = "idle"]
    /\ UNCHANGED <<idGenVars, idLocal, idAdds, idStarted, idReturned, treeVars,
                   spanApiVars, ctxApiVars, setLabelCalls, panics,
                   clientCarrier, lastCall, decoded, extVars>>

NextIdsLive ==
    \/ \E p \in Callers : EnterNextSpanID(p)
    \/ \E p \in Callers : AddNextSpanID(p)
    \/ \E p \in Callers : LeaveNextSpanID(p)

\* Every goroutine that is inside nextSpanID is scheduled again.
FairIds ==
    \A p \in Callers :
        WF_vars(AddNextSpanID(p)) /\ WF_vars(LeaveNextSpanID(p))

SpecIdsLive == InitIds /\ [][NextIdsLive]_vars /\ FairIds

\* A call during which no other caller added to the counter has made at
\* most two additions.
AloneAtMostTwo == \A p \in Callers : idAlone[p] => idAdds[p] <= 2

\* C29 (as stated): every call of nextSpanID returns, whatever the other
\* callers do, and a call with no concurrent caller makes at most two
\* atomic additions.
C29_AlwaysTerminates ==
    /\ \A p \in Callers : (idpc[p] = "loop") ~> (idpc[p] = "idle")
    /\ []AloneAtMostTwo

\* C29 (amended): every call of nextSpanID returns unless, between two of
\* its additions, the other callers make the 2^w - 1 additions that bring
\* the counter back to zero; a call with no concurrent caller makes at
\* most two atomic additions.
C29_TerminatesUnlessWrapped ==
    /\ \A p \in Callers :
          (idpc[p] = "loop") ~> (idpc[p] = "idle" \/ idOthers[p] >= Modulus - 1)
    /\ []AloneAtMostTwo

\* A call with no concurrent caller drew zero, added a second time and
\* returned.
C29_Witness ==
    \E p \in Callers :
        /\ idpc[p] = "idle"
        /\ idAlone[p]
        /\ idAdds[p] = 2
        /\ idLocal[p] # 0

====
